---- MODULE Spec2Model ----
(***************************************************************************)
(* Model of wally: the PS360 event-watermark loop (src/ps360.py), the XMPP *)
(* presence/command loop (src/xmpp.py) and the supervisor (src/wally.py).  *)
(*                                                                         *)
(* Each asyncio task is a process whose program counter names the await it *)
(* is suspended at; an action is the code that runs from the completion of *)
(* one await to the start of the next.  Wall-clock time is an integer; one *)
(* unit is at least the 500 ms that BrowseOrders adds to the watermark.    *)
(* Locals of a coroutine that has returned or raised hold their initial    *)
(* value.                                                                  *)
(***************************************************************************)
EXTENDS Integers, Sequences, FiniteSets, TLC

\* ---------------------------------------------------------------- bounds
MaxTime == 3            \* last wall-clock instant at which the remote system acts
MaxFaults == 2          \* injected RPC / store / connection failures
MaxSessionPolls == 2    \* polling intervals that fit in SESSION_DURATION_SECONDS
MaxWords == 3           \* longest chat message body, in words and blanks
MaxLocal == 3           \* longest local part of a handle, in characters
MaxStanzas == 2         \* presence stanzas the chat server delivers

\* ------------------------------------------------------ program constants
SEARCH_PREVIOUS == 1    \* SEARCH_PREVIOUS_MINUTES, in model time units
BROWSE_EPSILON == 1     \* the 500 ms added to the watermark, in model time units

Persons == {1, 2}
Reports == {1, 2}
StartTime == SEARCH_PREVIOUS

\* src/ps360.py EventType
EventType == {"Sign", "Edit", "QueueForSignature", "Overread"}

\* what a user of the remote system can add to a report: an event of a
\* recognised kind, one of a kind EventType does not know, or a view event.
\* The account of an event that is dropped is never read (123-125 precede 132).
RemoteEvents ==
  {[Type |-> "Sign", Account |-> p] : p \in Persons}
    \cup {[Type |-> "Create", Account |-> 1], [Type |-> "View", Account |-> 1]}

None == "None"                \* _account_session is None
Session == "AccountSession"   \* the session header SignIn answers with

\* the absent entry of self.users (KeyError) and the null columns of a row
NoUser == [event_type |-> "none", timestamp |-> 0, workstation |-> "none"]
NoUsers == [p \in Persons |-> NoUser]
Zero == [p \in Persons |-> 0]

\* no message handled yet, no row, no reply, no notification
NoBody == [words |-> <<>>, upper |-> FALSE]
NoMessage == [type |-> "none", from |-> 0, body |-> NoBody, payloads |-> {}]
NoRow == [id |-> 0, physch |-> "none"]
NoReply == [to |-> 0, kind |-> "none", body |-> NoBody, payload |-> "none"]
NoStatus == [pacs |-> 0, old |-> "none", new |-> "none", rowcount |-> 0]
NoHandler == [pc |-> "free", h |-> 0, new_presence |-> "none"]

\* on_changed_status coroutines that can be in flight at a time
Slots == {1, 2}

\* senders and subjects of presence: the handles of the persons of the users
\* table, and a handle (3) that resolves to no person
Handles == Persons \cup {3}

Max(a, b) == IF a >= b THEN a ELSE b

RECURSIVE SetMax(_)
SetMax(S) == IF S = {} THEN 0
             ELSE LET x == CHOOSE y \in S : TRUE IN Max(x, SetMax(S \ {x}))

SeqToSet(s) == {s[i] : i \in 1..Len(s)}

\* all orderings of a finite set, as sequences
Orderings(S) ==
  {s \in [1..Cardinality(S) -> S] : \A i, j \in 1..Cardinality(S) : i # j => s[i] # s[j]}

VARIABLES
  now,              \* wall clock
  reports,          \* remote orders: LastModifiedDate and events per report
  last_updated,     \* PS360.last_updated (the watermark)
  account_session,  \* PS360._account_session
  users,            \* PS360.users (in-memory index)
  users_to_upload,  \* local of get_latest_orders
  response,         \* BrowseOrders response still to iterate
  ps_pc,            \* await point of PS360.main_loop
  ps_after,         \* what follows the finally clause: loop, break or raise
  session_age,      \* polling intervals since session_start_time
  store,            \* users table: ps360_last_event_* columns
  pacs_presence,    \* users table: pacs_presence column
  pool_open,        \* the AsyncConnectionPool is open
  xm_pc,            \* await point of XMPP.main_loop
  xm_after,         \* what follows XMPP's finally clause: loop or raise
  connected,        \* the real-time connection is open
  reset_presence,   \* XMPP_RESET_PRESENCE
  main_pc,          \* position of wally.main / asyncio.run
  ps_cancel,        \* cancellation requested for ps360_task, not yet delivered
  xm_cancel,        \* cancellation requested for xmpp_task, not yet delivered
  faults,           \* failures injected so far
  inbox,            \* the chat message a peer is sending, if any
  conn_held,        \* tasks that hold a connection of the pool
  msg,              \* the chat message on_message_received is handling
  msg_pc,           \* await point (or blocking call) of on_message_received
  msg_row,          \* generate_response: the row the select returned
  reply,            \* the reply on_message_received sent for msg
  \* history variables
  delivered_max,    \* per person, greatest recognised timestamp ever delivered
  cycle_users,      \* self.users as it was when the current poll cycle began
  cycle_max,        \* per person, greatest recognised timestamp delivered this cycle
  processed_lmd,    \* watermark at cycle start joined with the fully merged orders
  last_written,     \* persons written by the flush that just completed
  aborted_dirty,    \* persons an aborted cycle had marked dirty, not written since
  abort_cause,      \* which await raised the exception being handled
  logout_ran,       \* logout ran since the exception / cancellation being handled
  signout_for,      \* session that logout issued SignOut for, or None
  cancel_point,     \* await point at which CancelledError was delivered
  session_at_cancel, \* _account_session when CancelledError was delivered
  msg_outcome,      \* how the handling of msg ended
  msg_lookup,       \* a store lookup was issued for msg
  msg_query,        \* the scheduling-source query issued for msg
  last_status,      \* the last presence notification and the rows it updated
  jid,              \* argument of generate_pacs
  pacs,             \* what generate_pacs returned for jid
  jid_out,          \* what generate_jid returned for pacs
  conv_pc,          \* which of the two conversions has run
  roster,           \* client_roster: the presence last received for each handle
  handlers,         \* the on_changed_status coroutines in flight
  stanzas           \* per handle, the presence stanzas delivered so far

vars == <<now, reports, last_updated, account_session, users, users_to_upload,
          response, ps_pc, ps_after, session_age, store, pacs_presence,
          pool_open, xm_pc, xm_after, connected, reset_presence, main_pc,
          ps_cancel, xm_cancel, faults, delivered_max, cycle_users, cycle_max,
          processed_lmd, last_written, aborted_dirty, abort_cause, logout_ran,
          signout_for, cancel_point, session_at_cancel, inbox, conn_held, msg, msg_pc,
          msg_row, reply, msg_outcome, msg_lookup, msg_query, last_status,
          jid, pacs, jid_out, conv_pc, roster, handlers, stanzas>>

\* generate_pacs and generate_jid applied to a handle
handle == <<jid, pacs, jid_out, conv_pc>>
\* the world outside: the clock, the reporting system, the chat peer
remote == <<now, reports, inbox, handle>>
index == <<users, delivered_max>>
cycle == <<users_to_upload, response, cycle_users, cycle_max, processed_lmd>>
cancelHist == <<cancel_point, session_at_cancel>>
logoutHist == <<logout_ran, signout_for>>
\* the roster and the on_changed_status coroutines
notify == <<roster, handlers, stanzas>>
\* on_message_received, generate_response and on_changed_status
chat == <<msg, msg_pc, msg_row, reply, msg_outcome, msg_lookup, msg_query,
          last_status, notify>>
xmpp == <<xm_pc, xm_after, connected, reset_presence, pacs_presence, chat>>
\* what no step of the PS360 task except its cancellation touches
psFrame == <<remote, xmpp, main_pc, xm_cancel, ps_cancel, pool_open, cancelHist>>
\* what a step of the PS360 task outside the pool's connection leaves alone
psIdle == <<psFrame, conn_held>>
\* everything of the PS360 task
ps360 == <<last_updated, account_session, index, cycle, ps_pc, ps_after,
           session_age, store, last_written, aborted_dirty, abort_cause,
           logoutHist, cancelHist>>

\* phys_sched_roster and phys_sched_meetings are synchronous calls made from
\* a coroutine (src/xmpp.py 184, 193): until they return, the event loop runs
\* no step of any task
EventLoopFree == msg_pc # "physch"

\* ------------------------------------------------------------------ Init
\* PS360.__init__ (55-58), XMPP.__init__ and the state of the outside world
\* when wally.main has created both tasks
ConfiguredFor(rp, m) ==
  /\ last_updated = StartTime - SEARCH_PREVIOUS
  /\ account_session = None
  /\ users = NoUsers
  /\ users_to_upload = {}
  /\ response = <<>>
  /\ ps_pc = "login"
  /\ ps_after = "loop"
  /\ session_age = 0
  /\ store = NoUsers
  /\ pacs_presence = [p \in Persons |-> "Available"]
  /\ pool_open = TRUE
  /\ reset_presence \in rp
  /\ xm_pc = IF reset_presence THEN "reset_acquire" ELSE "connect"
  /\ xm_after = "loop"
  /\ connected = FALSE
  /\ main_pc = "gather"
  /\ ps_cancel = FALSE
  /\ xm_cancel = FALSE
  /\ faults = 0
  /\ delivered_max = Zero
  /\ cycle_users = NoUsers
  /\ cycle_max = Zero
  /\ processed_lmd = 0
  /\ last_written = {}
  /\ aborted_dirty = {}
  /\ abort_cause = "none"
  /\ logout_ran = FALSE
  /\ signout_for = None
  /\ cancel_point = "none"
  /\ session_at_cancel = None
  /\ inbox = m
  /\ conn_held = {}
  /\ msg = NoMessage
  /\ msg_pc = "idle"
  /\ msg_row = NoRow
  /\ reply = NoReply
  /\ msg_outcome = "none"
  /\ msg_lookup = FALSE
  /\ msg_query = "none"
  /\ last_status = NoStatus
  /\ roster = [h \in Handles |-> <<>>]
  /\ handlers = [i \in Slots |-> NoHandler]
  /\ stanzas = [h \in Handles |-> 0]

\* no handle is being converted
NoConversion ==
  /\ jid = <<>>
  /\ pacs = <<>>
  /\ jid_out = <<>>
  /\ conv_pc = "none"

\* no chat peer is writing
Configured(rp) == ConfiguredFor(rp, NoMessage) /\ NoConversion

Init ==
  /\ now = StartTime
  /\ reports = [r \in Reports |-> [LastModifiedDate |-> 0, events |-> <<>>]]
  /\ Configured(BOOLEAN)

\* ------------------------------------------------- remote reporting system
\* A user acts on a report: the report gains an event stamped with the new
\* clock value and its LastModifiedDate becomes that value.  Only BrowseOrders
\* and GetReportEvents read the remote state, so activity is taken while one
\* of them is pending: activity at any other moment is first seen there.
RemoteActivity(r, e) ==
  /\ now < MaxTime
  /\ ps_pc \in {"browse", "report"}
  /\ now' = now + 1
  /\ reports' = [reports EXCEPT ![r] =
       [LastModifiedDate |-> now + 1,
        events |-> Append(@.events,
          [Type |-> e.Type, EventTime |-> now + 1, Workstation |-> "WS",
           Account |-> e.Account])]]
  /\ UNCHANGED <<ps360, xmpp, store, pool_open, main_pc, ps_cancel, xm_cancel,
                 faults, conn_held, inbox, handle>>

\* ------------------------------------------------- PS360.get_latest_orders
\* BrowseOrders time filter (96-97): From = last_updated + 500 ms, To = now
BrowseWindow(lu, t) ==
  {r \in Reports : /\ reports[r].LastModifiedDate >= lu + BROWSE_EPSILON
                   /\ reports[r].LastModifiedDate <= t}

\* the report objects of a response, in one of the orders the endpoint may use
BrowseResponses(lu, t) ==
  {[i \in 1..Len(o) |-> [ReportID |-> o[i],
                         LastModifiedDate |-> reports[o[i]].LastModifiedDate]]
     : o \in Orderings(BrowseWindow(lu, t))}

\* lines 114-120: excludeViewEvents=True; the answer is None when nothing is left
RECURSIVE GetReportEvents(_)
GetReportEvents(events) ==
  IF events = <<>> THEN <<>>
  ELSE IF Head(events).Type = "View" THEN GetReportEvents(Tail(events))
  ELSE <<Head(events)>> \o GetReportEvents(Tail(events))

\* lines 112-113
AdvanceWatermarkNoGuard(lu, lmd) == lmd
AdvanceWatermark(lu, lmd) == IF lmd > lu THEN lmd ELSE lu

\* line 135: user.last_event.timestamp < last_event.timestamp
IsNewerOrEqual(old, new) == old.timestamp <= new.timestamp
IsNewer(old, new) == old.timestamp < new.timestamp

\* lines 126-131
UserLastEvent(event) ==
  [event_type |-> event.Type, timestamp |-> event.EventTime,
   workstation |-> event.Workstation]

\* lines 121-147: fold the events of one report into self.users and
\* users_to_upload; the result is the pair of both
RECURSIVE MergeEvents(_, _, _)
MergeEvents(u, dirty, events) ==
  IF events = <<>> THEN [users |-> u, dirty |-> dirty]
  ELSE LET event == Head(events)
           last_event == UserLastEvent(event)
           userId == event.Account
       IN IF event.Type \notin EventType
            THEN MergeEvents(u, dirty, Tail(events))
          ELSE IF u[userId] # NoUser /\ ~IsNewer(u[userId], last_event)
            THEN MergeEvents(u, dirty, Tail(events))
          ELSE MergeEvents([u EXCEPT ![userId] = last_event],
                           dirty \cup {userId}, Tail(events))

\* the for-loop head at line 111 for the remaining response `resp`: either the
\* loop is over and the pool connection is requested (148), or the watermark
\* moves (112-113) and GetReportEvents is issued (114)
ForReport(resp, lu) ==
  /\ response' = resp
  /\ IF resp = <<>>
       THEN /\ ps_pc' = "acquire"
            /\ last_updated' = lu
       ELSE /\ ps_pc' = "report"
            /\ last_updated' = AdvanceWatermark(lu, Head(resp).LastModifiedDate)

Fault == /\ faults < MaxFaults
         /\ faults' = faults + 1

\* an exception leaves login or get_latest_orders: except Exception (167-170).
\* session_start_time is not read again before line 162 assigns it.
RaiseException(cause) ==
  /\ ps_pc' = "backoff"
  /\ abort_cause' = cause
  /\ logout_ran' = FALSE
  /\ aborted_dirty' = aborted_dirty \cup users_to_upload
  /\ users_to_upload' = {}
  /\ response' = <<>>
  /\ session_age' = 0
  /\ signout_for' = None
  /\ conn_held' = conn_held \ {"ps360"}
  /\ UNCHANGED <<last_updated, index, cycle_users, cycle_max, processed_lmd,
                 ps_after, store, last_written, psFrame>>

\* line 161: SignIn answers; the ingress plugin (183) stores the session header
PS_LoginOk ==
  /\ EventLoopFree
  /\ ps_pc = "login" /\ ~ps_cancel
  /\ account_session' = Session
  /\ session_age' = 0
  /\ ps_pc' = "browse"
  /\ logout_ran' = FALSE
  /\ signout_for' = None
  /\ UNCHANGED <<last_updated, index, cycle, ps_after, store, last_written,
                 aborted_dirty, abort_cause, faults, psIdle>>

\* SignIn fails: either no response at all, or a response without the session
\* header, which the ingress plugin stores as None (then line 78 asserts)
PS_LoginFail ==
  /\ EventLoopFree
  /\ ps_pc = "login" /\ ~ps_cancel
  /\ Fault
  /\ \E s \in {account_session, None} : account_session' = s
  /\ RaiseException("login")

\* line 78: assert self._account_session is not None
AssertSessionSkipped(s) == TRUE
AssertSession(s) == s # None

\* SignIn answers without the session header: the ingress plugin (183) stores
\* None; when the assertion of line 78 passes, login returns and 162-164 follow
PS_LoginNoHeader ==
  /\ EventLoopFree
  /\ ps_pc = "login" /\ ~ps_cancel
  /\ Fault
  /\ account_session' = None
  /\ IF AssertSession(None)
       THEN /\ session_age' = 0
            /\ ps_pc' = "browse"
            /\ logout_ran' = FALSE
            /\ signout_for' = None
            /\ UNCHANGED <<last_updated, index, cycle, ps_after, store,
                           last_written, aborted_dirty, abort_cause, psIdle>>
       ELSE RaiseException("login")

\* lines 92-113: BrowseOrders answers and the for loop starts
PS_BrowseOk ==
  /\ EventLoopFree
  /\ ps_pc = "browse" /\ ~ps_cancel
  /\ \E resp \in BrowseResponses(last_updated, now) : ForReport(resp, last_updated)
  /\ users_to_upload' = {}
  /\ cycle_users' = users
  /\ cycle_max' = Zero
  /\ processed_lmd' = last_updated
  /\ UNCHANGED <<account_session, index, ps_after, session_age, store,
                 last_written, aborted_dirty, abort_cause, logoutHist, faults,
                 psIdle>>

PS_BrowseFail ==
  /\ EventLoopFree
  /\ ps_pc = "browse" /\ ~ps_cancel
  /\ Fault
  /\ UNCHANGED account_session
  /\ RaiseException("browse")

\* lines 114-147: GetReportEvents answers for the report at the head of the
\* response, its events are merged, and the for loop moves on
PS_EventsOk ==
  /\ EventLoopFree
  /\ ps_pc = "report" /\ ~ps_cancel
  /\ LET events == GetReportEvents(reports[Head(response).ReportID].events)
         m == MergeEvents(users, users_to_upload, events)
         newest == [p \in Persons |->
           SetMax({e.EventTime : e \in {x \in SeqToSet(events) :
                     x.Account = p /\ x.Type \in EventType}})]
     IN /\ users' = m.users
        /\ users_to_upload' = m.dirty
        /\ cycle_max' = [p \in Persons |-> Max(cycle_max[p], newest[p])]
        /\ delivered_max' = [p \in Persons |-> Max(delivered_max[p], newest[p])]
  /\ processed_lmd' = Max(processed_lmd, Head(response).LastModifiedDate)
  /\ ForReport(Tail(response), last_updated)
  /\ UNCHANGED <<account_session, cycle_users, ps_after, session_age, store,
                 last_written, aborted_dirty, abort_cause, logoutHist, faults,
                 psIdle>>

PS_EventsFail ==
  /\ EventLoopFree
  /\ ps_pc = "report" /\ ~ps_cancel
  /\ Fault
  /\ UNCHANGED account_session
  /\ RaiseException("events")

\* line 148: the pool hands out a connection
PS_AcquireOk ==
  /\ EventLoopFree
  /\ ps_pc = "acquire" /\ ~ps_cancel
  /\ pool_open
  /\ ps_pc' = "flush"
  /\ conn_held' = conn_held \cup {"ps360"}
  /\ UNCHANGED <<last_updated, account_session, index, cycle, ps_after,
                 session_age, store, last_written, aborted_dirty, abort_cause,
                 logoutHist, faults, psFrame>>

\* line 148 raises: the pool is closed, or the store cannot be reached
PS_AcquireFail ==
  /\ EventLoopFree
  /\ ps_pc = "acquire" /\ ~ps_cancel
  /\ IF pool_open THEN Fault ELSE faults' = faults
  /\ UNCHANGED account_session
  /\ RaiseException("store")

\* lines 150-155: one batched update, a row per dirty person; the coroutine
\* returns and line 165 sleeps
PS_FlushOk ==
  /\ EventLoopFree
  /\ ps_pc = "flush" /\ ~ps_cancel
  /\ store' = [p \in Persons |-> IF p \in users_to_upload THEN users[p] ELSE store[p]]
  /\ last_written' = users_to_upload
  /\ aborted_dirty' = aborted_dirty \ users_to_upload
  /\ users_to_upload' = {}
  /\ ps_pc' = "poll_sleep"
  /\ conn_held' = conn_held \ {"ps360"}
  /\ UNCHANGED <<last_updated, account_session, index, response, cycle_users,
                 cycle_max, processed_lmd, ps_after, session_age, abort_cause,
                 logoutHist, faults, psFrame>>

PS_FlushFail ==
  /\ EventLoopFree
  /\ ps_pc = "flush" /\ ~ps_cancel
  /\ Fault
  /\ UNCHANGED account_session
  /\ RaiseException("store")

\* ------------------------------------------------------ PS360.main_loop
\* line 163: the session is still within SESSION_DURATION_SECONDS
SessionAliveForever(age) == TRUE
SessionAlive(age) == age < MaxSessionPolls

\* where main_loop goes once the finally clause (174-175) is over: the next
\* iteration (158-161), the statement after the loop (173), or out with the
\* CancelledError that was pending
AfterFinally(after) ==
  CASE after = "loop" -> "login"
    [] after = "break" -> "returned"
    [] after = "raise" -> "cancelled"

\* the finally clause is over
EndFinally(after) ==
  /\ ps_pc' = AfterFinally(after)
  /\ ps_after' = "loop"

\* lines 174-175 and 84-87: the finally clause calls logout, which issues
\* SignOut only when a session is stored
LogoutUnguarded(after) ==
  /\ logout_ran' = TRUE
  /\ signout_for' = account_session
  /\ ps_pc' = "signout" /\ ps_after' = after
Logout(after) ==
  /\ logout_ran' = TRUE
  /\ signout_for' = account_session
  /\ IF account_session # None
       THEN ps_pc' = "signout" /\ ps_after' = after
       ELSE EndFinally(after)

\* history of the poll cycle that is over
ForgetCycle ==
  /\ cycle_users' = NoUsers
  /\ cycle_max' = Zero
  /\ processed_lmd' = 0
  /\ last_written' = {}
  /\ abort_cause' = "none"

\* line 165 returns; line 163 is evaluated again; when it fails: 166, 174-175
PS_PollSleepDone ==
  /\ EventLoopFree
  /\ ps_pc = "poll_sleep" /\ ~ps_cancel
  /\ IF SessionAlive(session_age + 1)
       THEN /\ ps_pc' = "browse"
            /\ session_age' = session_age + 1
            /\ UNCHANGED <<ps_after, logoutHist>>
       ELSE /\ Logout("loop")
            /\ session_age' = 0
  /\ ForgetCycle
  /\ UNCHANGED <<last_updated, account_session, index, users_to_upload,
                 response, store, aborted_dirty, faults, psIdle>>

\* line 170 returns: the except clause is over, the finally clause runs
PS_BackoffDone ==
  /\ EventLoopFree
  /\ ps_pc = "backoff" /\ ~ps_cancel
  /\ Logout("loop")
  /\ ForgetCycle
  /\ UNCHANGED <<last_updated, account_session, index, users_to_upload,
                 response, session_age, store, aborted_dirty, faults, psIdle>>

\* line 87: SignOut answers true (88): the session is cleared
PS_SignOutOk ==
  /\ EventLoopFree
  /\ ps_pc = "signout" /\ ~ps_cancel
  /\ account_session' = None
  /\ EndFinally(ps_after)
  /\ UNCHANGED <<last_updated, index, cycle, session_age, store, last_written,
                 aborted_dirty, abort_cause, logoutHist, faults, psIdle>>

\* SignOut answers false: the session is what the ingress plugin (183) stored
\* from the response, its session header or None
PS_SignOutFalse ==
  /\ EventLoopFree
  /\ ps_pc = "signout" /\ ~ps_cancel
  /\ Fault
  /\ \E s \in {account_session, None} : account_session' = s
  /\ EndFinally(ps_after)
  /\ UNCHANGED <<last_updated, index, cycle, session_age, store, last_written,
                 aborted_dirty, abort_cause, logoutHist, psIdle>>

\* SignOut raises inside the finally clause: nothing in main_loop catches it
PS_SignOutRaise ==
  /\ EventLoopFree
  /\ ps_pc = "signout" /\ ~ps_cancel
  /\ Fault
  /\ ps_pc' = "failed"
  /\ ps_after' = "loop"
  /\ UNCHANGED <<last_updated, account_session, index, cycle, session_age,
                 store, last_written, aborted_dirty, abort_cause, logoutHist,
                 psIdle>>

PsAwaits == {"login", "browse", "report", "acquire", "flush", "poll_sleep",
             "backoff", "signout"}
PsFinished == {"returned", "failed", "cancelled"}

\* what follows the finally clause when CancelledError is raised at `point`:
\* inside the try block it is caught at 171 and the loop breaks (173); inside
\* the except clause (170) it propagates once the finally clause is over
OnCancelledNoLogout(point) == IF point = "backoff" THEN "cancelled" ELSE "returned"
OnCancelled(point) == IF point = "backoff" THEN "raise" ELSE "break"

\* CancelledError is delivered at the await main_loop is suspended at; raised
\* by line 175 itself it leaves main_loop at once
PS_Cancelled ==
  /\ EventLoopFree
  /\ ps_cancel /\ ps_pc \in PsAwaits
  /\ ps_cancel' = FALSE
  /\ cancel_point' = ps_pc
  /\ session_at_cancel' = account_session
  /\ IF ps_pc = "signout"
       THEN /\ ps_pc' = "cancelled"
            /\ ps_after' = "loop"
            /\ UNCHANGED logoutHist
       ELSE IF OnCancelled(ps_pc) \in {"break", "raise"}
         THEN Logout(OnCancelled(ps_pc))
         ELSE /\ ps_pc' = OnCancelled(ps_pc)
              /\ logout_ran' = FALSE
              /\ signout_for' = None
              /\ UNCHANGED ps_after
  /\ users_to_upload' = {}
  /\ response' = <<>>
  /\ session_age' = 0
  /\ conn_held' = conn_held \ {"ps360"}
  /\ UNCHANGED <<last_updated, account_session, index, cycle_users, cycle_max,
                 processed_lmd, store, last_written, aborted_dirty, abort_cause,
                 faults, remote, xmpp, main_pc, xm_cancel, pool_open>>

\* -------------------------------------------------------- XMPP.main_loop
XmFinished == {"failed", "cancelled"}

\* line 206: the pool hands out a connection for the presence reset
XM_ResetAcquireOk ==
  /\ EventLoopFree
  /\ xm_pc = "reset_acquire" /\ ~xm_cancel
  /\ pool_open
  /\ xm_pc' = "reset"
  /\ conn_held' = conn_held \cup {"xmpp"}
  /\ UNCHANGED <<ps360, remote, chat, xm_after, connected, reset_presence,
                 pacs_presence, pool_open, main_pc, ps_cancel, xm_cancel, faults>>

\* lines 206-207 raise: nothing in main_loop catches it, the loop never starts
XM_ResetFail ==
  /\ EventLoopFree
  /\ xm_pc \in {"reset_acquire", "reset"} /\ ~xm_cancel
  /\ IF pool_open THEN Fault ELSE faults' = faults
  /\ xm_pc' = "failed"
  /\ conn_held' = conn_held \ {"xmpp"}
  /\ UNCHANGED <<ps360, remote, chat, xm_after, connected, reset_presence,
                 pacs_presence, pool_open, main_pc, ps_cancel, xm_cancel>>

\* line 207: update users set pacs_presence='Offline'
ResetPresenceSkipped(presence) == presence
ResetPresence(presence) == [p \in DOMAIN presence |-> "Offline"]

\* line 207 returns and the connection is given back; then 208-211
XM_ResetOk ==
  /\ EventLoopFree
  /\ xm_pc = "reset" /\ ~xm_cancel
  /\ pacs_presence' = ResetPresence(pacs_presence)
  /\ xm_pc' = "connect"
  /\ conn_held' = conn_held \ {"xmpp"}
  /\ UNCHANGED <<ps360, remote, chat, xm_after, connected, reset_presence,
                 pool_open, main_pc, ps_cancel, xm_cancel, faults>>

\* line 211 returns: connected; line 213 waits for the disconnection
XM_ConnectOk ==
  /\ EventLoopFree
  /\ xm_pc = "connect" /\ ~xm_cancel
  /\ connected' = TRUE
  /\ xm_pc' = "connected"
  /\ UNCHANGED <<ps360, remote, chat, conn_held, xm_after, reset_presence, pacs_presence,
                 pool_open, main_pc, ps_cancel, xm_cancel, faults>>

\* line 211 raises: except Exception (214-216), then the finally clause sleeps
XM_ConnectFail ==
  /\ EventLoopFree
  /\ xm_pc = "connect" /\ ~xm_cancel
  /\ Fault
  /\ xm_pc' = "sleep"
  /\ UNCHANGED <<ps360, remote, chat, conn_held, xm_after, connected, reset_presence,
                 pacs_presence, pool_open, main_pc, ps_cancel, xm_cancel>>

\* line 213 returns: the server or the network dropped the connection
XM_Disconnected ==
  /\ EventLoopFree
  /\ xm_pc = "connected" /\ ~xm_cancel
  /\ Fault
  /\ connected' = FALSE
  /\ xm_pc' = "sleep"
  /\ UNCHANGED <<ps360, remote, chat, conn_held, xm_after, reset_presence, pacs_presence,
                 pool_open, main_pc, ps_cancel, xm_cancel>>

\* line 219 returns: back to the top of the loop, or the pending
\* CancelledError leaves main_loop
XM_SleepDone ==
  /\ EventLoopFree
  /\ xm_pc = "sleep" /\ ~xm_cancel
  /\ xm_pc' = IF xm_after = "loop" THEN "connect" ELSE "cancelled"
  /\ xm_after' = "loop"
  /\ UNCHANGED <<ps360, remote, chat, conn_held, connected, reset_presence, pacs_presence,
                 pool_open, main_pc, ps_cancel, xm_cancel, faults>>

\* CancelledError is delivered at the await main_loop is suspended at: inside
\* the try block the finally clause (217-219) sleeps before it propagates;
\* elsewhere it propagates at once.  No path closes the connection.
XM_Cancelled ==
  /\ EventLoopFree
  /\ xm_cancel /\ xm_pc \notin XmFinished
  /\ xm_cancel' = FALSE
  /\ IF xm_pc \in {"connect", "connected"}
       THEN xm_pc' = "sleep" /\ xm_after' = "raise"
       ELSE xm_pc' = "cancelled" /\ xm_after' = "loop"
  /\ conn_held' = conn_held \ {"xmpp"}
  /\ UNCHANGED <<ps360, remote, chat, connected, reset_presence, pacs_presence,
                 pool_open, main_pc, ps_cancel, faults>>

\* ------------------------------------------------- XMPP event handlers
\* the users table as generate_response reads it: person 1 has a scheduling
\* code, person 2 has none (physch is null)
Directory ==
  [p \in Persons |-> [id |-> p,
                      first_name |-> IF p = 1 THEN "bob" ELSE "amy",
                      physch |-> IF p = 1 THEN "BB" ELSE "none"]]

\* a message body is a sequence of words and blanks, in lower case or, when
\* `upper` is set, the same text in upper case
Words == {"roster", "meetings", "tomorrow", "bob", " "}
WordSeqs == UNION {[1..n -> Words] : n \in 0..MaxWords}
Bodies == [words : WordSeqs, upper : BOOLEAN]

\* lines 109-111: the extension elements looked for, in this order
Extensions == <<"orderContainer2", "orderContainer", "phoneRequestAction">>
PayloadSets == {{}, {"orderContainer"}, {"phoneRequestAction"},
                {"orderContainer2", "phoneRequestAction"}}

ChatMessages ==
  [type : {"chat"}, from : Handles, body : Bodies, payloads : PayloadSets]
Messages ==
  ChatMessages \cup {[type |-> "groupchat", from |-> 1,
                      body |-> [words |-> <<"roster">>, upper |-> FALSE],
                      payloads |-> {}]}

\* presence as the roster reports it for a handle (94): no resource at all, or
\* the `show` of the first resource
Shows == {"", "away", "dnd", "xa"}
RosterPresences == {<<>>} \cup {<<sh>> : sh \in Shows}

\* lines 39-52
presence_from_dict(d) ==
  IF d = <<>> THEN "Offline"
  ELSE CASE Head(d) = "" -> "Available"
         [] Head(d) = "away" -> "Away"
         [] Head(d) = "dnd" -> "Busy"
         [] OTHER -> "Offline"

\* line 96: ... and pacs_presence<>%s
PresenceAlwaysDiffers(old, new) == TRUE
PresenceDiffers(old, new) == old # new

chatFrame == <<ps360, remote, xm_pc, xm_after, connected, reset_presence,
               pool_open, main_pc, ps_cancel, xm_cancel>>

\* stanzas delivered so far, over all handles
RECURSIVE Delivered(_, _)
Delivered(count, H) ==
  IF H = {} THEN 0
  ELSE LET h == CHOOSE x \in H : TRUE IN count[h] + Delivered(count, H \ {h})

FreeSlots == {i \in Slots : handlers[i].pc = "free"}

\* the connection a handler holds while its update runs
StatusConn(hs, held) ==
  IF \E i \in Slots : hs[i].pc = "update" THEN held \cup {"status"}
  ELSE held \ {"status"}

\* A presence stanza from handle h arrives: the roster takes the presence d,
\* and on_changed_status runs up to its first await (92-95): it reads the
\* presence of h from the roster and asks the pool for a connection.
XM_ChangedStatus(h, d) ==
  /\ EventLoopFree
  /\ connected
  /\ Delivered(stanzas, Handles) < MaxStanzas
  /\ FreeSlots # {}
  /\ roster' = [roster EXCEPT ![h] = d]
  /\ stanzas' = [stanzas EXCEPT ![h] = @ + 1]
  /\ LET i == CHOOSE x \in FreeSlots : \A y \in FreeSlots : x <= y
     IN handlers' = [handlers EXCEPT ![i] =
          [pc |-> "acquire", h |-> h,
           new_presence |-> presence_from_dict(roster'[h])]]
  /\ UNCHANGED <<chatFrame, faults, conn_held, pacs_presence, last_status, msg,
                 msg_pc, msg_row, reply, msg_outcome, msg_lookup, msg_query>>

\* line 95: the pool hands out a connection
XM_StatusAcquireOk(i) ==
  /\ EventLoopFree
  /\ handlers[i].pc = "acquire"
  /\ pool_open
  /\ handlers' = [handlers EXCEPT ![i].pc = "update"]
  /\ conn_held' = StatusConn(handlers', conn_held)
  /\ UNCHANGED <<chatFrame, faults, pacs_presence, last_status, roster, stanzas,
                 msg, msg_pc, msg_row, reply, msg_outcome, msg_lookup, msg_query>>

\* line 95 raises: the pool is closed, or the store cannot be reached
XM_StatusAcquireFail(i) ==
  /\ EventLoopFree
  /\ handlers[i].pc = "acquire"
  /\ IF pool_open THEN Fault ELSE faults' = faults
  /\ handlers' = [handlers EXCEPT ![i] = NoHandler]
  /\ UNCHANGED <<chatFrame, conn_held, pacs_presence, last_status, roster,
                 stanzas, msg, msg_pc, msg_row, reply, msg_outcome, msg_lookup,
                 msg_query>>

\* lines 96-102: one update statement; it touches the row whose pacs is the
\* handle, when its presence differs, and sets presence and pacs_last_updated
XM_StatusUpdateOk(i) ==
  /\ EventLoopFree
  /\ handlers[i].pc = "update"
  /\ LET h == handlers[i].h
         new_presence == handlers[i].new_presence
         rows == {p \in Persons :
                    p = h /\ PresenceDiffers(pacs_presence[p], new_presence)}
     IN /\ pacs_presence' =
             [p \in Persons |-> IF p \in rows THEN new_presence
                                ELSE pacs_presence[p]]
        /\ last_status' =
             [pacs |-> h,
              old |-> IF h \in Persons THEN pacs_presence[h] ELSE "none",
              new |-> new_presence,
              rowcount |-> Cardinality(rows)]
  /\ handlers' = [handlers EXCEPT ![i] = NoHandler]
  /\ conn_held' = StatusConn(handlers', conn_held)
  /\ UNCHANGED <<chatFrame, faults, roster, stanzas, msg, msg_pc, msg_row, reply,
                 msg_outcome, msg_lookup, msg_query>>

\* line 96 raises: the store failed
XM_StatusUpdateFail(i) ==
  /\ EventLoopFree
  /\ handlers[i].pc = "update"
  /\ Fault
  /\ handlers' = [handlers EXCEPT ![i] = NoHandler]
  /\ conn_held' = StatusConn(handlers', conn_held)
  /\ UNCHANGED <<chatFrame, pacs_presence, last_status, roster, stanzas, msg,
                 msg_pc, msg_row, reply, msg_outcome, msg_lookup, msg_query>>

\* str.strip()
RECURSIVE LStrip(_)
LStrip(w) == IF w # <<>> /\ Head(w) = " " THEN LStrip(Tail(w)) ELSE w
RECURSIVE RStrip(_)
RStrip(w) ==
  IF w # <<>> /\ w[Len(w)] = " " THEN RStrip(SubSeq(w, 1, Len(w) - 1)) ELSE w
Strip(w) == RStrip(LStrip(w))

\* lines 163-170 and 191-194: what generate_response makes of a body.  Both
\* patterns ignore case and match any text that begins with the keyword.
ParseCommand(body) ==
  LET message == Strip(body.words)
  IN IF message # <<>> /\ Head(message) = "roster"
       THEN LET group == Strip(Tail(message))
            IN [kind |-> "roster",
                tomorrow |-> (group = <<"tomorrow">>),
                custom_user |-> IF group = <<"tomorrow">> THEN <<>> ELSE group]
     ELSE IF message # <<>> /\ Head(message) = "meetings"
       THEN [kind |-> "meetings",
             tomorrow |-> (Strip(Tail(message)) = <<"tomorrow">>),
             custom_user |-> <<>>]
     ELSE [kind |-> "help", tomorrow |-> FALSE, custom_user |-> <<>>]

\* lines 108-112: the first extension element the message carries
RECURSIVE FirstPayload(_, _)
FirstPayload(exts, present) ==
  IF exts = <<>> THEN "none"
  ELSE IF Head(exts) \in present THEN Head(exts)
  ELSE FirstPayload(Tail(exts), present)

\* lines 173-180: the row the select returns, if any
Select(from, custom_user) ==
  LET found == IF custom_user = <<>>
                 THEN {p \in Persons : p = from}
                 ELSE {p \in Persons : custom_user = <<Directory[p].first_name>>}
  IN IF found = {} THEN NoRow
     ELSE LET p == CHOOSE q \in found : TRUE
          IN [id |-> p, physch |-> Directory[p].physch]

\* lines 113-116: the reply is sent and the handler returns
SendReply(m, kind, body, payload) ==
  /\ reply' = [to |-> m.from, kind |-> kind, body |-> body, payload |-> payload]
  /\ msg_outcome' = "replied"
  /\ msg_pc' = "idle"

\* an exception leaves on_message_received: no reply is sent
HandlerRaises ==
  /\ reply' = NoReply
  /\ msg_outcome' = "raised"
  /\ msg_pc' = "idle"

\* line 113: the body is echoed when a payload was found
EchoesNothing(payload) == FALSE
EchoesPayload(payload) == payload # "none"

\* lines 105-113 and 162-171, 191-201: a message arrives and is handled up to
\* the first await of generate_response, or up to its blocking query
XM_MessageReceived(m) ==
  /\ connected /\ msg_pc = "idle"
  /\ msg' = m
  /\ msg_row' = NoRow
  /\ msg_lookup' = FALSE
  /\ IF m.type # "chat"
       THEN /\ reply' = NoReply
            /\ msg_outcome' = "ignored"
            /\ msg_pc' = "idle"
            /\ msg_query' = "none"
     ELSE IF EchoesPayload(FirstPayload(Extensions, m.payloads))
       THEN /\ SendReply(m, "echo", m.body, FirstPayload(Extensions, m.payloads))
            /\ msg_query' = "none"
     ELSE LET c == ParseCommand(m.body)
          IN CASE c.kind = "roster" ->
                    /\ msg_pc' = "acquire"
                    /\ reply' = NoReply
                    /\ msg_outcome' = "pending"
                    /\ msg_query' = "none"
               [] c.kind = "meetings" ->
                    /\ msg_pc' = "physch"
                    /\ reply' = NoReply
                    /\ msg_outcome' = "pending"
                    /\ msg_query' = "meetings"
               [] OTHER ->
                    /\ SendReply(m, "help", NoBody, "none")
                    /\ msg_query' = "none"
  /\ UNCHANGED <<chatFrame, faults, conn_held, pacs_presence, last_status, notify>>

\* line 171: the pool hands out a connection; 172-179 issue the select
XM_MsgAcquireOk ==
  /\ msg_pc = "acquire"
  /\ pool_open
  /\ msg_pc' = "select"
  /\ msg_lookup' = TRUE
  /\ conn_held' = conn_held \cup {"message"}
  /\ UNCHANGED <<chatFrame, faults, pacs_presence, last_status, notify, msg, msg_row,
                 reply, msg_outcome, msg_query>>

\* line 171 raises: the pool is closed, or the store cannot be reached
XM_MsgAcquireFail ==
  /\ msg_pc = "acquire"
  /\ IF pool_open THEN Fault ELSE faults' = faults
  /\ HandlerRaises
  /\ UNCHANGED <<chatFrame, conn_held, pacs_presence, last_status, notify, msg, msg_row,
                 msg_lookup, msg_query>>

\* line 180 ends the `async with` block of line 171
ConnKeptAfterSelect(held) == held
ConnAfterSelect(held) == held \ {"message"}

\* lines 179-190: the select answers, the connection is given back, and the
\* reply is chosen or phys_sched_roster is called (184)
XM_MsgSelectOk ==
  /\ msg_pc = "select"
  /\ conn_held' = ConnAfterSelect(conn_held)
  /\ LET c == ParseCommand(msg.body)
         result == Select(msg.from, c.custom_user)
     IN /\ msg_row' = result
        /\ IF result # NoRow /\ result.physch # "none"
             THEN /\ msg_pc' = "physch"
                  /\ msg_query' = "roster"
                  /\ UNCHANGED <<reply, msg_outcome>>
             ELSE /\ SendReply(msg,
                       IF result # NoRow THEN "no_physch"
                       ELSE IF c.custom_user = <<>> THEN "not_registered"
                       ELSE "not_found", NoBody, "none")
                  /\ UNCHANGED msg_query
  /\ UNCHANGED <<chatFrame, faults, pacs_presence, last_status, notify, msg, msg_lookup>>

\* lines 179-180 raise: the store failed
XM_MsgSelectFail ==
  /\ msg_pc = "select"
  /\ Fault
  /\ conn_held' = conn_held \ {"message"}
  /\ HandlerRaises
  /\ UNCHANGED <<chatFrame, pacs_presence, last_status, notify, msg, msg_row,
                 msg_lookup, msg_query>>

\* phys_sched_roster (119-135) or phys_sched_meetings (137-160) returns: rows
\* were found or not
XM_PhyschOk ==
  /\ msg_pc = "physch"
  /\ \E found \in BOOLEAN :
       SendReply(msg,
         IF msg_query = "roster"
           THEN (IF found THEN "roster" ELSE "not_rostered")
           ELSE (IF found THEN "meetings" ELSE "no_meetings"), NoBody, "none")
  /\ UNCHANGED <<chatFrame, faults, conn_held, pacs_presence, last_status, notify, msg,
                 msg_row, msg_lookup, msg_query>>

\* the scheduling source cannot be reached or the query fails: pymssql raises
XM_PhyschFail ==
  /\ msg_pc = "physch"
  /\ Fault
  /\ HandlerRaises
  /\ UNCHANGED <<chatFrame, conn_held, pacs_presence, last_status, notify, msg,
                 msg_row, msg_lookup, msg_query>>

\* ------------------------------------------- generate_pacs, generate_jid
\* A string is the sequence of its characters; the domain is one character.
LowerCase == {"a", "b"}
UpperCase == {"A", "B"}
ToUpper == [a |-> "A", b |-> "B"]
ToLower == [A |-> "a", B |-> "b"]
Separator == "|"
Domain == <<"@", "cdhb">>

\* jid.split('@')[0]
RECURSIVE BeforeAt(_)
BeforeAt(s) ==
  IF s = <<>> \/ Head(s) = "@" THEN <<>>
  ELSE <<Head(s)>> \o BeforeAt(Tail(s))

\* re.sub(r'\|([a-z])', lambda m: m.group(1).upper(), ...), left to right
RECURSIVE SubSeparator(_)
SubSeparator(s) ==
  IF s = <<>> THEN <<>>
  ELSE IF Len(s) >= 2 /\ s[1] = Separator /\ s[2] \in LowerCase
    THEN <<ToUpper[s[2]]>> \o SubSeparator(Tail(Tail(s)))
  ELSE <<Head(s)>> \o SubSeparator(Tail(s))

\* lines 57-58
generate_pacs(j) == SubSeparator(BeforeAt(j))

\* lambda m: '|' + m.group(1).lower()
LowerOnly(c) == <<ToLower[c]>>
SeparatorAndLower(c) == <<Separator, ToLower[c]>>

\* re.sub(r'([A-Z])', ..., pacs)
RECURSIVE SubUpperCase(_)
SubUpperCase(s) ==
  IF s = <<>> THEN <<>>
  ELSE (IF Head(s) \in UpperCase THEN SeparatorAndLower(Head(s)) ELSE <<Head(s)>>)
         \o SubUpperCase(Tail(s))

\* lines 54-55
generate_jid(p) == SubUpperCase(p) \o Domain

\* handles: a local part of letters and separators, and the fixed domain
Locals == UNION {[1..n -> LowerCase \cup UpperCase \cup {Separator}] : n \in 1..MaxLocal}
Jids == {l \o Domain : l \in Locals}

\* everything that is not the conversion of a handle
program == <<ps360, now, reports, inbox, xmpp, pool_open, main_pc, ps_cancel,
             xm_cancel, faults, conn_held>>

ToPacs ==
  /\ conv_pc = "jid"
  /\ pacs' = generate_pacs(jid)
  /\ conv_pc' = "pacs"
  /\ UNCHANGED <<program, jid, jid_out>>

ToJid ==
  /\ conv_pc = "pacs"
  /\ jid_out' = generate_jid(pacs)
  /\ conv_pc' = "done"
  /\ UNCHANGED <<program, jid, pacs>>

\* ---------------------------------------------- wally.main and asyncio.run
\* lines 27-30: KeyboardInterrupt; asyncio.run cancels main, whose gather (22)
\* cancels both tasks
Main_Interrupt ==
  /\ EventLoopFree
  /\ main_pc = "gather"
  /\ main_pc' = "interrupted"
  /\ ps_cancel' = (ps_pc \notin PsFinished)
  /\ xm_cancel' = (xm_pc \notin XmFinished)
  /\ UNCHANGED <<ps360, remote, xmpp, pool_open, faults, conn_held>>

\* line 22: gather re-raises the first exception of a task; main leaves the
\* `async with` block (12-17), which closes the pool
Main_GatherRaises ==
  /\ EventLoopFree
  /\ main_pc = "gather"
  /\ ps_pc = "failed" \/ xm_pc = "failed"
  /\ main_pc' = "closed"
  /\ pool_open' = FALSE
  /\ UNCHANGED <<ps360, remote, xmpp, ps_cancel, xm_cancel, faults, conn_held>>

\* line 28: main is over, asyncio.run cancels the tasks still running
Main_CancelRest ==
  /\ EventLoopFree
  /\ main_pc = "closed"
  /\ main_pc' = "unwinding"
  /\ ps_cancel' = (ps_pc \notin PsFinished)
  /\ xm_cancel' = (xm_pc \notin XmFinished)
  /\ UNCHANGED <<ps360, remote, xmpp, pool_open, faults, conn_held>>

\* both tasks are over: main (when still inside gather) leaves the
\* `async with` block, and asyncio.run returns
Main_Exit ==
  /\ EventLoopFree
  /\ main_pc \in {"interrupted", "unwinding"}
  /\ ps_pc \in PsFinished /\ xm_pc \in XmFinished
  /\ main_pc' = IF main_pc = "interrupted" THEN "interrupted_exit" ELSE "exit"
  /\ pool_open' = FALSE
  /\ UNCHANGED <<ps360, remote, xmpp, ps_cancel, xm_cancel, faults, conn_held>>

\* lines 25-30 and PS360.__init__ (55-58): the process is over and is started
\* again.  Nothing in memory survives; the users table and the reporting
\* system are as the last run left them.
Restart ==
  /\ main_pc \in {"exit", "interrupted_exit"}
  /\ last_updated' = now - SEARCH_PREVIOUS
  /\ account_session' = None
  /\ users' = NoUsers
  /\ users_to_upload' = {}
  /\ response' = <<>>
  /\ ps_pc' = "login"
  /\ ps_after' = "loop"
  /\ session_age' = 0
  /\ pool_open' = TRUE
  /\ xm_pc' = IF reset_presence THEN "reset_acquire" ELSE "connect"
  /\ xm_after' = "loop"
  /\ connected' = FALSE
  /\ main_pc' = "gather"
  /\ ps_cancel' = FALSE
  /\ xm_cancel' = FALSE
  /\ delivered_max' = Zero
  /\ cycle_users' = NoUsers
  /\ cycle_max' = Zero
  /\ processed_lmd' = 0
  /\ last_written' = {}
  /\ aborted_dirty' = {}
  /\ abort_cause' = "none"
  /\ logout_ran' = FALSE
  /\ signout_for' = None
  /\ cancel_point' = "none"
  /\ session_at_cancel' = None
  /\ conn_held' = {}
  /\ msg' = NoMessage
  /\ msg_pc' = "idle"
  /\ msg_row' = NoRow
  /\ reply' = NoReply
  /\ msg_outcome' = "none"
  /\ msg_lookup' = FALSE
  /\ msg_query' = "none"
  /\ last_status' = NoStatus
  /\ roster' = [h \in Handles |-> <<>>]
  /\ handlers' = [i \in Slots |-> NoHandler]
  /\ UNCHANGED <<remote, store, pacs_presence, reset_presence, faults, stanzas>>

\* ------------------------------------------------------- specifications
PS360Step ==
  \/ PS_LoginOk
  \/ PS_LoginFail
  \/ PS_LoginNoHeader
  \/ PS_BrowseOk
  \/ PS_BrowseFail
  \/ PS_EventsOk
  \/ PS_EventsFail
  \/ PS_AcquireOk
  \/ PS_AcquireFail
  \/ PS_FlushOk
  \/ PS_FlushFail
  \/ PS_PollSleepDone
  \/ PS_BackoffDone
  \/ PS_SignOutOk
  \/ PS_SignOutFalse
  \/ PS_SignOutRaise
  \/ PS_Cancelled

XMPPStep ==
  \/ XM_ResetAcquireOk
  \/ XM_ResetFail
  \/ XM_ResetOk
  \/ XM_ConnectOk
  \/ XM_ConnectFail
  \/ XM_Disconnected
  \/ XM_SleepDone
  \/ XM_Cancelled

MainStep ==
  \/ Main_Interrupt
  \/ Main_GatherRaises
  \/ Main_CancelRest
  \/ Main_Exit

Remote == \E r \in Reports, e \in RemoteEvents : RemoteActivity(r, e)

\* the peer's message is delivered (a peer may send it again)
Receive == inbox # NoMessage /\ XM_MessageReceived(inbox)

Notify == \E h \in Handles, d \in RosterPresences : XM_ChangedStatus(h, d)

StatusStep ==
  \/ \E i \in Slots : XM_StatusAcquireOk(i)
  \/ \E i \in Slots : XM_StatusAcquireFail(i)
  \/ \E i \in Slots : XM_StatusUpdateOk(i)
  \/ \E i \in Slots : XM_StatusUpdateFail(i)

MessageStep ==
  \/ XM_MsgAcquireOk
  \/ XM_MsgAcquireFail
  \/ XM_MsgSelectOk
  \/ XM_MsgSelectFail

PhyschStep ==
  \/ XM_PhyschOk
  \/ XM_PhyschFail

\* the whole program and the remote system
Next ==
  \/ Remote
  \/ PS360Step
  \/ XMPPStep
  \/ MainStep
  \/ Receive
  \/ Notify
  \/ StatusStep
  \/ MessageStep
  \/ PhyschStep

Spec == Init /\ [][Next]_vars

\* The PS360 task on its own, with the remote reporting system and the
\* interrupt that cancels it; the XMPP task stands still.
InitEngine ==
  /\ now = StartTime
  /\ reports = [r \in Reports |-> [LastModifiedDate |-> 0, events |-> <<>>]]
  /\ Configured({FALSE})

NextEngine == Remote \/ PS360Step \/ Main_Interrupt

SpecEngine == InitEngine /\ [][NextEngine]_vars

\* Both tasks under the supervisor, with the remote reporting system at rest:
\* person 1 signed report 1 before the tasks first ran.
InitLoops ==
  /\ now = StartTime + 1
  /\ reports = [r \in Reports |->
       IF r = 1
         THEN [LastModifiedDate |-> StartTime + 1,
               events |-> <<[Type |-> "Sign", EventTime |-> StartTime + 1,
                             Workstation |-> "WS", Account |-> 1]>>]
         ELSE [LastModifiedDate |-> 0, events |-> <<>>]]
  /\ Configured(BOOLEAN)

NextLoops == PS360Step \/ XMPPStep \/ MainStep

SpecLoops == InitLoops /\ [][NextLoops]_vars

\* The XMPP task with the presence notifications of its connection.
NextPresence == XMPPStep \/ Notify \/ StatusStep \/ Main_Interrupt

SpecPresence == Init /\ [][NextPresence]_vars

\* The XMPP client once main_loop connects it, and a peer that sends it a
\* message, whatever the message is.
InitChat ==
  /\ now = StartTime
  /\ reports = [r \in Reports |-> [LastModifiedDate |-> 0, events |-> <<>>]]
  /\ LET anyMessage == Messages
     IN \E m \in anyMessage : ConfiguredFor({FALSE}, m)
  /\ NoConversion

NextChat == XM_ConnectOk \/ Receive \/ MessageStep \/ PhyschStep

SpecChat == InitChat /\ [][NextChat]_vars

\* one message for each path through on_message_received
CommandMessages ==
  {[type |-> "chat", from |-> 1, body |-> [words |-> w, upper |-> FALSE],
    payloads |-> {}] : w \in {<<"roster">>, <<"meetings">>, <<"bob">>}}
  \cup {[type |-> "chat", from |-> 3,
         body |-> [words |-> <<"roster">>, upper |-> FALSE],
         payloads |-> {"phoneRequestAction"}]}

ReceiveCommand == \E m \in CommandMessages : XM_MessageReceived(m)

\* Both tasks and the chat commands on one event loop, with the remote
\* reporting system at rest.
NextShared ==
  \/ PS360Step
  \/ XMPPStep
  \/ ReceiveCommand
  \/ MessageStep
  \/ PhyschStep
  \/ Main_Interrupt

SpecShared == InitLoops /\ [][NextShared]_vars

\* The PS360 task over several runs of the process: person 1 signed report 1
\* as the first run started; an interrupt ends a run, and the process is
\* started again.
InitRuns ==
  /\ now = StartTime
  /\ reports = [r \in Reports |->
       IF r = 1
         THEN [LastModifiedDate |-> StartTime,
               events |-> <<[Type |-> "Sign", EventTime |-> StartTime,
                             Workstation |-> "WS", Account |-> 1]>>]
         ELSE [LastModifiedDate |-> 0, events |-> <<>>]]
  /\ Configured({FALSE})

NextRuns ==
  \/ Remote
  \/ PS360Step
  \/ XM_Cancelled
  \/ XM_SleepDone
  \/ Main_Interrupt
  \/ Main_Exit
  \/ Restart

SpecRuns == InitRuns /\ [][NextRuns]_vars

\* The two conversions applied in turn to a handle, whatever the handle is.
InitHandle ==
  /\ now = StartTime
  /\ reports = [r \in Reports |-> [LastModifiedDate |-> 0, events |-> <<>>]]
  /\ ConfiguredFor({FALSE}, NoMessage)
  /\ jid \in Jids
  /\ pacs = <<>>
  /\ jid_out = <<>>
  /\ conv_pc = "jid"

NextHandle == ToPacs \/ ToJid

SpecHandle == InitHandle /\ [][NextHandle]_vars

\* ================================================================ claims

\* C1: once a poll cycle has flushed, the last_event stored for each person is
\* the recognised event with the greatest timestamp among all events delivered
\* to get_latest_orders for that person, over all poll cycles so far.
C1_StoredIsMaxDelivered ==
  ps_pc = "poll_sleep" =>
    \A p \in Persons : delivered_max[p] > 0 => store[p].timestamp = delivered_max[p]

\* C2: no event merged by an aborted poll cycle is lost: once a later cycle has
\* flushed and the remote system has nothing further to deliver, every person
\* an aborted cycle had marked dirty has been written to the store.
C2_AbortedEventsWritten ==
  (ps_pc = "poll_sleep" /\ BrowseWindow(last_updated, now) = {}) => aborted_dirty = {}

\* C3: when an RPC failure aborts a poll cycle, the watermark is no later than
\* the modification time of the orders whose events were fetched and merged
\* before the failure (or than its value when the cycle began).
C3_WatermarkOnlyProcessed ==
  (ps_pc = "backoff" /\ abort_cause \in {"browse", "events"}) =>
    last_updated <= processed_lmd

\* C4: the watermark never decreases, whatever step is taken.
C4_WatermarkMonotonic == [][last_updated' >= last_updated]_vars

\* C4 witness: the watermark has advanced and the poll cycle was aborted.
C4_Witness ==
  /\ last_updated > StartTime - SEARCH_PREVIOUS
  /\ ps_pc = "backoff" /\ abort_cause = "events"

\* the recognised events delivered for p in the current cycle are all at or
\* before the index entry p had when the cycle began
StaleOnly(p) ==
  /\ cycle_users[p] # NoUser
  /\ cycle_max[p] > 0
  /\ cycle_max[p] <= cycle_users[p].timestamp

\* C5: a person for whom a poll cycle delivers only events at or before the
\* index entry keeps that entry, is not marked dirty and is not written by the
\* cycle's flush.
C5_StaleRedeliveryNoWrite ==
  \A p \in Persons : StaleOnly(p) =>
    /\ users[p] = cycle_users[p]
    /\ p \notin users_to_upload
    /\ (ps_pc = "poll_sleep" => p \notin last_written)

\* C5 witness: a cycle that re-delivered an already merged event has flushed.
C5_Witness ==
  /\ ps_pc = "poll_sleep"
  /\ \E p \in Persons : StaleOnly(p)

\* C6: while the loop sleeps the error backoff with a session still stored,
\* the logout step has already run for the exception being handled.
C6_LogoutBeforeBackoff ==
  (ps_pc = "backoff" /\ account_session # None) => logout_ran

\* C7: no exception escapes PS360.main_loop.
C7_NoExceptionEscapes == ps_pc # "failed"

CancelPoints == {"login", "browse", "report", "acquire", "flush", "poll_sleep",
                 "backoff"}

\* C8: when main_loop has finished after a cancellation delivered during login,
\* a poll, the inter-poll sleep or the backoff sleep, the logout step has run
\* since, it issued SignOut for the session that was active (if any), and
\* unless an RPC failed the session is released.
C8_LogoutOnCancel ==
  (ps_pc \in PsFinished /\ cancel_point \in CancelPoints) =>
    /\ logout_ran
    /\ signout_for = session_at_cancel
    /\ (faults = 0 => account_session = None)

\* C8 witness: main_loop returned after being cancelled during a poll with an
\* active session, which was signed out.
C8_Witness ==
  /\ ps_pc = "returned"
  /\ cancel_point \in {"browse", "report", "acquire", "flush"}
  /\ session_at_cancel # None
  /\ signout_for = session_at_cancel
  /\ account_session = None

\* C9: unless the supervisor was interrupted, a loop that ended by a failure
\* leaves the other loop running, not cancelled, and the pool open.
C9_IndependentLoops ==
  ( /\ main_pc \notin {"interrupted", "interrupted_exit"}
    /\ \/ ps_pc = "failed" /\ xm_pc \notin XmFinished
       \/ xm_pc = "failed" /\ ps_pc \notin PsFinished )
  => (pool_open /\ ~ps_cancel /\ ~xm_cancel)

\* C10: when the cancelled XMPP loop has stopped, the real-time connection is
\* closed.
C10_ClosedOnCancel == xm_pc = "cancelled" => ~connected

\* C11: whenever a BrowseOrders, GetReportEvents or SignOut RPC is in flight it
\* was issued with a session token that is not absent; with no session stored
\* the loop is at none of these calls.
C11_RpcCarriesSession ==
  ps_pc \in {"browse", "report", "signout"} => account_session # None

\* C11 witness: login ended without a session and no poll was started.
C11_Witness ==
  /\ ps_pc = "backoff"
  /\ abort_cause = "login"
  /\ account_session = None

\* the awaits of get_latest_orders
PollPoints == {"browse", "report", "acquire", "flush"}

\* C12: a poll runs only on a session younger than the maximum duration, taken
\* from a login since which no logout has run; a poll starts only right after
\* a successful login or after the inter-poll sleep of a session still young
\* enough; when the inter-poll sleep ends on a session that has reached the
\* maximum duration, the next step is the logout step, which issues SignOut
\* for that session; without a failure the loop holds no session at login.
C12_SessionLifecycle ==
  [][ /\ ps_pc' \in PollPoints =>
           /\ session_age' < MaxSessionPolls
           /\ account_session' = Session
           /\ ~logout_ran'
      /\ (ps_pc' = "browse" /\ ps_pc \notin PollPoints) =>
           \/ ps_pc = "login" /\ session_age' = 0
           \/ ps_pc = "poll_sleep" /\ session_age' = session_age + 1
      /\ (ps_pc = "poll_sleep" /\ session_age + 1 >= MaxSessionPolls
            /\ ps_pc' # ps_pc) =>
           /\ logout_ran'
           /\ signout_for' = account_session
           /\ ps_pc' = "signout"
      /\ (ps_pc' = "login" /\ faults' = 0) => account_session' = None
    ]_vars

\* C12 witness: without any failure, a poll is starting on a session of age 0
\* although an earlier poll has already flushed: the earlier session expired,
\* was logged out and a fresh login followed.
C12_Witness ==
  /\ ps_pc = "browse"
  /\ session_age = 0
  /\ account_session = Session
  /\ faults = 0
  /\ \E p \in Persons : store[p] # NoUser

\* a step of main_loop that calls logout: it leaves an await other than the
\* one inside logout and ends inside logout or behind the finally clause
LogoutStep ==
  /\ ps_pc \in PsAwaits \ {"signout"}
  /\ ps_pc' \in {"signout", "login", "returned", "cancelled"}
  /\ ps_pc' # ps_pc

\* C13: a call of logout with no session stored issues no SignOut and leaves
\* the session, the index, the store and the watermark as they are; this
\* includes the second of two calls in succession after a sign-out that
\* succeeded.
C13_LogoutIdempotent ==
  [][ (account_session = None /\ LogoutStep) =>
        /\ ps_pc' # "signout"
        /\ signout_for' = None
        /\ UNCHANGED <<account_session, users, store, last_updated>>
    ]_vars

\* C13 witness: without any failure the loop returned after a cancellation at
\* login that followed a completed session: the logout of the expired session
\* signed out, and the logout of the cancellation found no session.
C13_Witness ==
  /\ ps_pc = "returned"
  /\ cancel_point = "login"
  /\ logout_ran
  /\ signout_for = None
  /\ account_session = None
  /\ faults = 0
  /\ \E p \in Persons : store[p] # NoUser

AllOffline == \A p \in Persons : pacs_presence[p] = "Offline"

\* C14 as stated: whenever the real-time connection is open and no presence
\* notification has been processed yet, every person's stored presence is
\* Offline.
C14_ResetOnEveryStart ==
  (connected /\ last_status = NoStatus) => AllOffline

\* C14 amended: when XMPP_RESET_PRESENCE is set, from the moment main_loop
\* starts to connect until the first presence notification is processed,
\* every person's stored presence is Offline.
C14_ResetWhenConfigured ==
  ( /\ reset_presence
    /\ connected \/ xm_pc \in {"connect", "connected"}
    /\ last_status = NoStatus )
  => AllOffline

\* C14 witness: the reset is configured, the connection is open and no
\* notification has been processed.
C14_Witness ==
  /\ reset_presence
  /\ connected
  /\ xm_pc = "connected"
  /\ last_status = NoStatus

\* C15: the update of on_changed_status writes a row only for a handle that
\* resolves to a person whose stored presence differs from the newly mapped
\* one; a stored presence changes only by such a write (or by the reset of
\* main_loop), and then to the mapped presence of the notification.
C15_WriteOnlyOnChange ==
  [][ /\ last_status'.rowcount > 0 =>
           /\ last_status'.rowcount = 1
           /\ last_status'.pacs \in Persons
           /\ last_status'.old # last_status'.new
      /\ \A p \in Persons :
           pacs_presence'[p] # pacs_presence[p] =>
             \/ xm_pc = "reset"
             \/ /\ last_status'.pacs = p
                /\ last_status'.rowcount = 1
                /\ last_status'.old = pacs_presence[p]
                /\ last_status'.new = pacs_presence'[p]
    ]_vars

\* C15 witness: a notification whose mapped presence equals the stored one
\* was processed and wrote no row.
C15_Witness ==
  /\ last_status.pacs \in Persons
  /\ last_status.old = last_status.new
  /\ last_status.rowcount = 0
  /\ pacs_presence[last_status.pacs] = last_status.new

\* C16: no task holds a connection of the pool while it waits on another
\* system: the PS360 task holds none at an RPC of the reporting system, the
\* message handler holds none during the scheduling-source query, and the
\* XMPP task holds none while it connects or is connected.
C16_NoConnAcrossOtherSystem ==
  /\ "ps360" \in conn_held => ps_pc \notin {"login", "browse", "report", "signout"}
  /\ "message" \in conn_held => msg_pc # "physch"
  /\ "xmpp" \in conn_held => xm_pc \notin {"connect", "connected"}

\* C16 witness: the roster query runs for a message whose store lookup has
\* returned a row, and the handler holds no connection.
C16_Witness ==
  /\ msg_pc = "physch"
  /\ msg_query = "roster"
  /\ msg_lookup
  /\ msg_row # NoRow
  /\ "message" \notin conn_held

\* C17: while a scheduling-source query is in progress, the PS360 task, when
\* it has a step to take, can take it, and a presence notification can be
\* processed.
C17_OthersProgress ==
  msg_pc = "physch" =>
    /\ ps_pc \in PsAwaits => ENABLED PS360Step
    /\ (connected /\ pool_open) => ENABLED Notify

\* the handling of msg, a direct chat message, is over
Handled == msg.type = "chat" /\ msg_pc = "idle" /\ msg_outcome # "none"

\* C18: when the handling of a direct chat message is over, a reply was sent
\* and no error left the handler.
C18_AlwaysReplies ==
  Handled => (msg_outcome = "replied" /\ reply # NoReply)

\* C19: a direct chat message that carries a recognised payload is answered
\* at once with its own body and one of its payloads, to its sender, without
\* store lookup and without scheduling query.
C19_PayloadEchoed ==
  (msg.type = "chat" /\ msg.payloads # {}) =>
    /\ msg_pc = "idle"
    /\ msg_outcome = "replied"
    /\ reply.to = msg.from
    /\ reply.body = msg.body
    /\ reply.payload \in msg.payloads
    /\ ~msg_lookup
    /\ msg_query = "none"

\* C19 witness: a message with a payload whose body reads as a roster command
\* was echoed.
C19_Witness ==
  /\ msg.type = "chat"
  /\ msg.payloads # {}
  /\ Strip(msg.body.words) = <<"roster">>
  /\ reply.kind = "echo"

\* the commands the help text lists (195-201), blanks around and between the
\* words allowed: roster, roster tomorrow, roster <name or login>, meetings,
\* meetings tomorrow
IsCommand(words) ==
  LET w == Strip(words)
  IN \/ w = <<"roster">>
     \/ w = <<"meetings">>
     \/ /\ Len(w) > 2
        /\ w[2] = " "
        /\ \/ w[1] = "roster"
           \/ w[1] = "meetings" /\ Strip(Tail(w)) = <<"tomorrow">>

\* C20: a direct chat message without payload whose text is none of the
\* commands is answered with the help text, without store lookup and without
\* scheduling query; the meetings query is issued only for `meetings` and
\* `meetings tomorrow`.
C20_OnlyCommands ==
  (msg.type = "chat" /\ msg.payloads = {}) =>
    /\ ~IsCommand(msg.body.words) =>
         /\ msg_pc = "idle"
         /\ reply.kind = "help"
         /\ ~msg_lookup
         /\ msg_query = "none"
    /\ msg_query = "meetings" =>
         \/ Strip(msg.body.words) = <<"meetings">>
         \/ /\ Head(Strip(msg.body.words)) = "meetings"
            /\ Strip(msg.body.words)[2] = " "
            /\ Strip(Tail(Strip(msg.body.words))) = <<"tomorrow">>

\* C21: a handle of letters and separators, with the fixed domain, converted
\* to the internal code and back is the handle it was.
C21_RoundTrip ==
  conv_pc = "done" => jid_out = jid

\* C21, amended: a handle of lower-case letters and separators, with the fixed
\* domain, converted to the internal code and back is the handle it was.
C21_RoundTripLowerCase ==
  (conv_pc = "done" /\ \A i \in 1..Len(BeforeAt(jid)) :
                         BeforeAt(jid)[i] \in LowerCase \cup {Separator})
    => jid_out = jid

\* C21 witness: a|b@cdhb became aB and a|b@cdhb again.
C21_Witness ==
  /\ conv_pc = "done"
  /\ jid = <<"a", Separator, "b">> \o Domain
  /\ pacs = <<"a", "B">>
  /\ jid_out = jid

\* C22: no step lowers the last_event timestamp the store holds for a person,
\* a restart of the process included.
C22_StoreNeverDecreases ==
  [][\A p \in Persons : store'[p].timestamp >= store[p].timestamp]_vars

\* C23: when a handle had several presence notifications and all their
\* handlers have finished without error, the presence stored for the person
\* is the one mapped from the roster's presence of the handle.
C23_LatestPresenceStored ==
  \A h \in Persons :
    (stanzas[h] >= 2 /\ FreeSlots = Slots /\ faults = 0)
      => pacs_presence[h] = presence_from_dict(roster[h])

\* C24: main_loop calls login only with no session token stored, and a stored
\* token is given up only by a SignOut that succeeded for it.
C24_LoginFromNoSession ==
  [][ /\ ps_pc' = "login" => account_session' = None
      /\ (account_session # None /\ account_session' = None)
           => (ps_pc = "signout" /\ faults' = faults) ]_vars

====
